---- MODULE Spec2Model ----
(***************************************************************************)
(* Model of src/scan.py, the BiasClear scan script: main() and its helpers *)
(* get_env, _set_output, _build_summary and _write_summary.                *)
(*                                                                         *)
(* One action per block of main(); pc is main()'s position.  An exception *)
(* raised inside the try body (lines 51-94) moves pc to "except" with the  *)
(* assignments made before the raising statement kept, as in Python.       *)
(*                                                                         *)
(* Representation choices:                                                 *)
(*  - a file path is the file's position in glob's result (1, 2, ...);     *)
(*  - an environment value and a file's text are sequences of one-letter   *)
(*    strings, so that int(), lower() and strip() are computed;            *)
(*  - a dict is a record; dict.get(k, d) is Get(r, k, d);                  *)
(*  - avg_score is held in tenths (900 stands for 90.0);                   *)
(*  - ", ".join(names) is held as the sequence of the joined names;        *)
(*  - json.dumps(results) is held as the list it serialises;               *)
(*  - the GITHUB_OUTPUT file, the GITHUB_STEP_SUMMARY file and standard    *)
(*    output are three append-only sequences;                              *)
(*  - the domain string is passed through unchanged and is left out.       *)
(*                                                                         *)
(* Environment: the biasclear package is importable, the sinks and stdout  *)
(* are writable, and what open(), read() and scan_local raise are          *)
(* subclasses of Exception.  scan_local is an external collaborator: what  *)
(* it returns is not constrained by this repository, so the verdicts       *)
(* include ones with absent fields and with malformed flags entries.       *)
(***************************************************************************)
EXTENDS Integers, Sequences, FiniteSets, TLC

\* ---------------------------------------------------------------- bounds
\* Largest number of files the glob pattern matches.
MaxFiles == 3

\* ------------------------------------------------------- program constants
DefaultThreshold == <<"7", "0">>
DefaultFailOnBias == <<"t", "r", "u", "e">>
\* the literal that SCAN_FAIL_ON_BIAS, lower-cased, is compared with
TrueLiteral == <<"t", "r", "u", "e">>
WarnCeiling == 90
NoScannedAvg == 100
MaxReportFlags == 5
MaxNamedFlags == 3
FailureExit == 1
SuccessExit == 0

\* exit_code while the process is still running
Running == -1

\* ------------------------------------------------------------ Python values
\* The value None where a string is expected (a flag's name).
None == "<None>"
\* A flags entry that is not a mapping (a string, a number, an object):
\* calling .get on it raises AttributeError.
NotAMapping == [not_a_mapping |-> TRUE]

IsMapping(f) == "not_a_mapping" \notin DOMAIN f
IsStr(s) == s # None

\* dict.get(key, default)
Get(r, key, default) == IF key \in DOMAIN r THEN r[key] ELSE default

\* seq[:n]
Take(s, n) == SubSeq(s, 1, IF Len(s) < n THEN Len(s) ELSE n)

\* ------------------------------------------------------------- environment
Digits == {"0", "1", "2", "3", "4", "5", "6", "7", "8", "9"}
DigitVal(c) ==
    CASE c = "0" -> 0 [] c = "1" -> 1 [] c = "2" -> 2 [] c = "3" -> 3
      [] c = "4" -> 4 [] c = "5" -> 5 [] c = "6" -> 6 [] c = "7" -> 7
      [] c = "8" -> 8 [] c = "9" -> 9

\* int(s) for the strings of the model: a non-empty run of decimal digits
\* parses, anything else raises ValueError.
IsInt(s) == Len(s) > 0 /\ \A i \in 1..Len(s) : s[i] \in Digits
RECURSIVE ParseInt(_)
ParseInt(s) ==
    IF s = <<>> THEN 0
    ELSE 10 * ParseInt(SubSeq(s, 1, Len(s) - 1)) + DigitVal(s[Len(s)])

\* str.lower() on the letters of the model
LowerChar(c) ==
    CASE c = "T" -> "t" [] c = "R" -> "r" [] c = "U" -> "u" [] c = "E" -> "e"
      [] OTHER -> c
Lower(s) == [i \in 1..Len(s) |-> LowerChar(s[i])]

\* str.strip(): drop leading and trailing whitespace
IsSpace(c) == c \in {" ", "\n"}
RECURSIVE LStrip(_)
LStrip(s) == IF s # <<>> /\ IsSpace(Head(s)) THEN LStrip(Tail(s)) ELSE s
RECURSIVE RStrip(_)
RStrip(s) ==
    IF s # <<>> /\ IsSpace(s[Len(s)]) THEN RStrip(SubSeq(s, 1, Len(s) - 1))
    ELSE s
\* Strip that strips nothing (the test "if not text")
Strip_Nothing(s) == s
Strip(s) == RStrip(LStrip(s))

\* os.environ.get(key, default)
get_env(environ, key, default) == Get(environ, key, default)

\* ------------------------------------------------------------------ inputs
\* The process environment: each variable set or unset.
\* GITHUB_OUTPUT and GITHUB_STEP_SUMMARY are both set (a workflow run) or
\* both unset (a local run).  Every pairing of a threshold (unset, "95")
\* with a fail-on-bias value (unset or "TRUE", "no") occurs, half of them
\* in a workflow run and half in a local run, and the threshold that is
\* not an integer occurs in both.
LocalRun(e) == [k \in DOMAIN e \cup {"HOME"} |->
                  IF k = "HOME" THEN <<"/">> ELSE e[k]]
WorkflowRun(e) == [k \in DOMAIN e \cup {"GITHUB_OUTPUT", "GITHUB_STEP_SUMMARY"} |->
                     IF k \in DOMAIN e THEN e[k] ELSE <<"f">>]
Environs ==
    { LocalRun([HOME |-> <<"/">>]),
      LocalRun([SCAN_THRESHOLD |-> <<"9", "5">>,
                SCAN_FAIL_ON_BIAS |-> <<"n", "o">>]),
      LocalRun([SCAN_THRESHOLD |-> <<"7", "x">>]),
      WorkflowRun([SCAN_FAIL_ON_BIAS |-> <<"n", "o">>]),
      WorkflowRun([SCAN_THRESHOLD |-> <<"9", "5">>,
                   SCAN_FAIL_ON_BIAS |-> <<"T", "R", "U", "E">>]),
      WorkflowRun([SCAN_THRESHOLD |-> <<"7", "x">>,
                   SCAN_FAIL_ON_BIAS |-> <<"n", "o">>]) }

\* What open()/read() gives for a file: its text, or an OSError.
Unreadable == <<"<OSError>">>
FileTexts == { <<>>, <<" ", "\n">>, <<" ", "a", "\n">> }
FileStates == FileTexts \cup { Unreadable }

\* What scan_local gives for a text: it raises, or it returns a verdict.
\* A verdict is a mapping in which each of truth_score, flags and
\* bias_detected may be absent; a flags entry may lack name or severity,
\* may carry a name that is not a string, or may not be a mapping at all.
Flag(n) == [name |-> n, severity |-> "high"]
SixFlags == << Flag("p1"), Flag("p2"), Flag("p3"),
               Flag("p4"), Flag("p5"), Flag("p6") >>
Verdicts ==
    { [engine |-> "local", truth_score |-> 50, flags |-> <<Flag("p1")>>,
       bias_detected |-> FALSE],
      [engine |-> "local", truth_score |-> 80, flags |-> <<>>,
       bias_detected |-> FALSE],
      [engine |-> "local", truth_score |-> 95, flags |-> SixFlags,
       bias_detected |-> TRUE],
      [engine |-> "local"],
      [engine |-> "local", truth_score |-> 95,
       flags |-> << [severity |-> "low"] >>],
      [engine |-> "local", truth_score |-> 80, flags |-> <<NotAMapping>>,
       bias_detected |-> FALSE],
      [engine |-> "local", truth_score |-> 80,
       flags |-> << [name |-> None, severity |-> "high"] >>,
       bias_detected |-> FALSE] }
Raises == [raises |-> "AnalysisError"]
Outcomes == Verdicts \cup { Raises }

\* ------------------------------------------------------------------- state
VARIABLES
    environ,      \* os.environ
    fs,           \* the files the pattern matches, in glob order
    pc,           \* position in main()
    threshold, fail_on_bias, files,
    idx,          \* index in files of the file being processed
    text, result, \* locals of the loop body
    exc,          \* str(e) of the exception being handled
    results, flagged, total_score,
    scanned, avg_score,
    outputs,      \* the GITHUB_OUTPUT file
    summary,      \* the GITHUB_STEP_SUMMARY file
    stdout,       \* standard output
    calls,        \* the files submitted to scan_local, in order
    exit_code

vars == << environ, fs, pc, threshold, fail_on_bias, files, idx, text,
           result, exc, results, flagged, total_score, scanned, avg_score,
           outputs, summary, stdout, calls, exit_code >>

\* the path of the file being processed
filepath == files[idx]

\* _set_output(name, value): append name=value to the GITHUB_OUTPUT file
\* when the variable is set, print it otherwise.  (No value written by
\* main() holds a line break, so the delimiter form is never taken.)
OutputFile(out, name, value) ==
    IF "GITHUB_OUTPUT" \in DOMAIN environ
    THEN Append(out, [name |-> name, value |-> value])
    ELSE out
OutputPrint(so, name, value) ==
    IF "GITHUB_OUTPUT" \in DOMAIN environ
    THEN so
    ELSE Append(so, [kind |-> "output", name |-> name, value |-> value])

\* _write_summary(summary): append to the GITHUB_STEP_SUMMARY file when the
\* variable is set, print the summary otherwise.
SummaryFile(sm, lines) ==
    IF "GITHUB_STEP_SUMMARY" \in DOMAIN environ THEN sm \o lines ELSE sm
SummaryPrint(so, lines) ==
    IF "GITHUB_STEP_SUMMARY" \in DOMAIN environ THEN so ELSE so \o lines

Init ==
    /\ environ \in Environs
    /\ \E n \in 0..MaxFiles : fs \in [1..n -> FileStates]
    /\ pc = "start"
    /\ threshold = 0
    /\ fail_on_bias = FALSE
    /\ files = <<>>
    /\ idx = 0
    /\ text = <<>>
    /\ result = Raises
    /\ exc = ""
    /\ results = <<>>
    /\ flagged = <<>>
    /\ total_score = 0
    /\ scanned = <<>>
    /\ avg_score = 0
    /\ outputs = <<>>
    /\ summary = <<>>
    /\ stdout = <<>>
    /\ calls = <<>>
    /\ exit_code = Running

\* ReadConfig that falls back to the default threshold when int() fails
ReadConfig_Fallback ==
    /\ pc = "start"
    /\ LET t == get_env(environ, "SCAN_THRESHOLD", DefaultThreshold)
           b == get_env(environ, "SCAN_FAIL_ON_BIAS", DefaultFailOnBias)
       IN  /\ threshold' = ParseInt(IF IsInt(t) THEN t ELSE DefaultThreshold)
           /\ fail_on_bias' = (Lower(b) = TrueLiteral)
           /\ files' = [i \in DOMAIN fs |-> i]
           /\ pc' = IF DOMAIN fs = {} THEN "nofiles" ELSE "banner"
           /\ UNCHANGED exit_code
    /\ UNCHANGED << environ, fs, idx, text, result, exc, results, flagged,
                    total_score, scanned, avg_score, outputs, summary,
                    stdout, calls >>

\* lines 22-28: read the configuration and resolve the pattern.
\* int() of a non-integer raises ValueError out of main(): exit status 1.
ReadConfig ==
    /\ pc = "start"
    /\ LET t == get_env(environ, "SCAN_THRESHOLD", DefaultThreshold)
           b == get_env(environ, "SCAN_FAIL_ON_BIAS", DefaultFailOnBias)
       IN  IF ~IsInt(t)
           THEN /\ pc' = "done"
                /\ exit_code' = FailureExit
                /\ UNCHANGED << threshold, fail_on_bias, files >>
           ELSE /\ threshold' = ParseInt(t)
                /\ fail_on_bias' = (Lower(b) = TrueLiteral)
                /\ files' = [i \in DOMAIN fs |-> i]
                /\ pc' = IF DOMAIN fs = {} THEN "nofiles" ELSE "banner"
                /\ UNCHANGED exit_code
    /\ UNCHANGED << environ, fs, idx, text, result, exc, results, flagged,
                    total_score, scanned, avg_score, outputs, summary,
                    stdout, calls >>

\* NoFiles reporting the average of an empty run as 0
NoFiles_AvgZero ==
    /\ pc = "nofiles"
    /\ stdout' = OutputPrint(OutputPrint(OutputPrint(OutputPrint(
                      Append(stdout, [kind |-> "notice"]),
                      "total_files", 0), "flagged_files", 0),
                      "avg_score", 0), "report", <<>>)
    /\ outputs' = OutputFile(OutputFile(OutputFile(OutputFile(outputs,
                      "total_files", 0), "flagged_files", 0),
                      "avg_score", 0), "report", <<>>)
    /\ pc' = "done"
    /\ exit_code' = SuccessExit
    /\ UNCHANGED << environ, fs, threshold, fail_on_bias, files, idx, text,
                    result, exc, results, flagged, total_score, scanned,
                    avg_score, summary, calls >>

\* lines 30-36: nothing matched
NoFiles ==
    /\ pc = "nofiles"
    /\ stdout' = OutputPrint(OutputPrint(OutputPrint(OutputPrint(
                      Append(stdout, [kind |-> "notice"]),
                      "total_files", 0), "flagged_files", 0),
                      "avg_score", 10 * NoScannedAvg), "report", <<>>)
    /\ outputs' = OutputFile(OutputFile(OutputFile(OutputFile(outputs,
                      "total_files", 0), "flagged_files", 0),
                      "avg_score", 10 * NoScannedAvg), "report", <<>>)
    /\ pc' = "done"
    /\ exit_code' = SuccessExit
    /\ UNCHANGED << environ, fs, threshold, fail_on_bias, files, idx, text,
                    result, exc, results, flagged, total_score, scanned,
                    avg_score, summary, calls >>

\* lines 38-48: the banner, the import of scan_local, the empty accumulators
StartScan ==
    /\ pc = "banner"
    /\ stdout' = Append(stdout, [kind |-> "banner", files |-> Len(files)])
    /\ results' = <<>>
    /\ flagged' = <<>>
    /\ total_score' = 0
    /\ pc' = "loop"
    /\ UNCHANGED << environ, fs, threshold, fail_on_bias, files, idx, text,
                    result, exc, scanned, avg_score, outputs, summary, calls,
                    exit_code >>

\* line 50: take the next file, or leave the loop
NextFile ==
    /\ pc = "loop"
    /\ IF idx < Len(files)
       THEN /\ idx' = idx + 1
            /\ pc' = "read"
       ELSE /\ pc' = "summarize"
            /\ UNCHANGED idx
    /\ UNCHANGED << environ, fs, threshold, fail_on_bias, files, text,
                    result, exc, results, flagged, total_score, scanned,
                    avg_score, outputs, summary, stdout, calls, exit_code >>

\* lines 52-53: open and read the file
ReadFile ==
    /\ pc = "read"
    /\ IF fs[filepath] = Unreadable
       THEN /\ exc' = "OSError"
            /\ pc' = "except"
            /\ UNCHANGED text
       ELSE /\ text' = fs[filepath]
            /\ pc' = "strip"
            /\ UNCHANGED exc
    /\ UNCHANGED << environ, fs, threshold, fail_on_bias, files, idx,
                    result, results, flagged, total_score, scanned,
                    avg_score, outputs, summary, stdout, calls, exit_code >>

\* lines 55-57: an empty or whitespace-only text is skipped
SkipEmpty ==
    /\ pc = "strip"
    /\ IF Strip(text) = <<>>
       THEN /\ stdout' = Append(stdout, [kind |-> "skipped", file |-> filepath])
            /\ pc' = "loop"
       ELSE /\ pc' = "analyze"
            /\ UNCHANGED stdout
    /\ UNCHANGED << environ, fs, threshold, fail_on_bias, files, idx, text,
                    result, exc, results, flagged, total_score, scanned,
                    avg_score, outputs, summary, calls, exit_code >>

\* line 60: await scan_local(text, domain=domain)
Analyze ==
    /\ pc = "analyze"
    /\ calls' = Append(calls, filepath)
    /\ \E o \in Outcomes :
         IF o = Raises
         THEN /\ exc' = o.raises
              /\ pc' = "except"
              /\ UNCHANGED result
         ELSE /\ result' = o
              /\ pc' = "build"
              /\ UNCHANGED exc
    /\ UNCHANGED << environ, fs, threshold, fail_on_bias, files, idx, text,
                    results, flagged, total_score, scanned, avg_score,
                    outputs, summary, stdout, exit_code >>

\* ScoreOf with 0 for an absent truth_score
ScoreOf_DefaultZero(v) == Get(v, "truth_score", 0)

\* lines 61-64: the fields of the verdict, with their defaults
ScoreOf(v) == Get(v, "truth_score", 100)
FlagsOf(v) == Get(v, "flags", <<>>)
BiasOf(v) == Get(v, "bias_detected", FALSE)

\* lines 67-76: the Scanned record of a file
FileResult(path, v) ==
    [file |-> path,
     truth_score |-> ScoreOf(v),
     bias_detected |-> BiasOf(v),
     flag_count |-> Len(FlagsOf(v)),
     flags |-> LET fl == Take(FlagsOf(v), MaxReportFlags)
               IN  [i \in 1..Len(fl) |->
                      [name |-> Get(fl[i], "name", ""),
                       severity |-> Get(fl[i], "severity", "")]]]

\* lines 72-75 raise AttributeError when one of flags[:5] is not a mapping
BuildRaises(v) ==
    \E i \in 1..Len(Take(FlagsOf(v), MaxReportFlags)) :
        ~IsMapping(FlagsOf(v)[i])

\* lines 61-77: add the score to the running sum, build the record, append
BuildResult ==
    /\ pc = "build"
    /\ total_score' = total_score + ScoreOf(result)
    /\ IF BuildRaises(result)
       THEN /\ exc' = "AttributeError"
            /\ pc' = "except"
            /\ UNCHANGED results
       ELSE /\ results' = Append(results, FileResult(filepath, result))
            /\ pc' = "classify"
            /\ UNCHANGED exc
    /\ UNCHANGED << environ, fs, threshold, fail_on_bias, files, idx, text,
                    result, flagged, scanned, avg_score, outputs, summary,
                    stdout, calls, exit_code >>

\* IsFlagged with the bias_detected disjunct dropped
IsFlagged_ScoreOnly(bias_detected, score, thr) == score < thr

\* line 80: the flagged test
IsFlagged(bias_detected, score, thr) == bias_detected \/ score < thr

\* Status decided by the score alone
Status_ScoreOnly(bias_detected, score, thr) ==
    IF score < thr THEN "red"
    ELSE IF score < WarnCeiling THEN "yellow"
    ELSE "green"

\* lines 80-91: the status glyph of the progress line
Status(bias_detected, score, thr) ==
    IF IsFlagged(bias_detected, score, thr) THEN "red"
    ELSE IF score < WarnCeiling THEN "yellow"
    ELSE "green"

\* ", ".join(f.get("name", "") for f in fl[:3]): the names joined, in order
JoinedNames(fl) ==
    LET top == Take(fl, MaxNamedFlags)
    IN  [i \in 1..Len(top) |-> Get(top[i], "name", "")]

\* str.join raises TypeError when an item is not a string
JoinRaises(fl) ==
    \E i \in 1..Len(Take(fl, MaxNamedFlags)) : ~IsStr(Get(fl[i], "name", ""))

\* lines 80-94: flag the file, print its annotation and its progress line
Classify ==
    /\ pc = "classify"
    /\ LET score == ScoreOf(result)
           flags == FlagsOf(result)
           bias_detected == BiasOf(result)
           file_result == results[Len(results)]
           progress == [kind |-> "progress", file |-> filepath,
                        status |-> Status(bias_detected, score, threshold),
                        score |-> score, flag_count |-> Len(flags)]
           warning == [kind |-> "warning", file |-> filepath,
                       score |-> score, flag_count |-> Len(flags),
                       flag_names |-> JoinedNames(flags)]
       IN  IF IsFlagged(bias_detected, score, threshold)
           THEN /\ flagged' = Append(flagged, file_result)
                /\ IF JoinRaises(flags)
                   THEN /\ exc' = "TypeError"
                        /\ pc' = "except"
                        /\ UNCHANGED stdout
                   ELSE /\ stdout' = stdout \o << warning, progress >>
                        /\ pc' = "loop"
                        /\ UNCHANGED exc
           ELSE /\ stdout' = Append(stdout, progress)
                /\ pc' = "loop"
                /\ UNCHANGED << flagged, exc >>
    /\ UNCHANGED << environ, fs, threshold, fail_on_bias, files, idx, text,
                    result, results, total_score, scanned, avg_score,
                    outputs, summary, calls, exit_code >>

\* HandleException with the loop abandoned after a failure
HandleException_Abort ==
    /\ pc = "except"
    /\ stdout' = Append(stdout, [kind |-> "failed", file |-> filepath,
                                 error |-> exc])
    /\ results' = Append(results, [file |-> filepath, error |-> exc,
                                   skipped |-> TRUE])
    /\ pc' = "summarize"
    /\ UNCHANGED << environ, fs, threshold, fail_on_bias, files, idx, text,
                    result, exc, flagged, total_score, scanned, avg_score,
                    outputs, summary, calls, exit_code >>

\* HandleException that submits the failed file again
HandleException_Retry ==
    /\ pc = "except"
    /\ stdout' = Append(stdout, [kind |-> "failed", file |-> filepath,
                                 error |-> exc])
    /\ results' = Append(results, [file |-> filepath, error |-> exc,
                                   skipped |-> TRUE])
    /\ pc' = IF Len(calls) < idx + 1 /\ fs[filepath] # Unreadable
             THEN "analyze" ELSE "loop"
    /\ UNCHANGED << environ, fs, threshold, fail_on_bias, files, idx, text,
                    result, exc, flagged, total_score, scanned, avg_score,
                    outputs, summary, calls, exit_code >>

\* lines 96-102: any Exception of the loop body becomes a Failed record
HandleException ==
    /\ pc = "except"
    /\ stdout' = Append(stdout, [kind |-> "failed", file |-> filepath,
                                 error |-> exc])
    /\ results' = Append(results, [file |-> filepath, error |-> exc,
                                   skipped |-> TRUE])
    /\ pc' = "loop"
    /\ UNCHANGED << environ, fs, threshold, fail_on_bias, files, idx, text,
                    result, exc, flagged, total_score, scanned, avg_score,
                    outputs, summary, calls, exit_code >>

\* line 105: the records without a truthy "skipped"
IsScanned(r) == ~Get(r, "skipped", FALSE)
Scanned(rs) == SelectSeq(rs, IsScanned)

\* round(total / n, 1), in tenths.  total / n is a multiple of 1/n, so for
\* n < 20 it never lies halfway between two tenths and rounding to the
\* nearest tenth is unambiguous.
RoundTenths(total, n) == (20 * total + n) \div (2 * n)

\* AvgScore without the value for zero scanned files
AvgScore_NoDefault(total, sc) ==
    RoundTenths(total, IF Len(sc) > 1 THEN Len(sc) ELSE 1)

\* line 106
AvgScore(total, sc) ==
    IF Len(sc) > 0
    THEN RoundTenths(total, IF Len(sc) > 1 THEN Len(sc) ELSE 1)
    ELSE 10 * NoScannedAvg

\* lines 105-112
Summarize ==
    /\ pc = "summarize"
    /\ scanned' = Scanned(results)
    /\ avg_score' = AvgScore(total_score, Scanned(results))
    /\ stdout' = Append(stdout, [kind |-> "results",
                                 scanned |-> Len(Scanned(results)),
                                 flagged |-> Len(flagged),
                                 avg_score |-> AvgScore(total_score,
                                                        Scanned(results))])
    /\ pc' = "out_total"
    /\ UNCHANGED << environ, fs, threshold, fail_on_bias, files, idx, text,
                    result, exc, results, flagged, total_score, outputs,
                    summary, calls, exit_code >>

\* line 115
SetTotalFiles ==
    /\ pc = "out_total"
    /\ outputs' = OutputFile(outputs, "total_files", Len(scanned))
    /\ stdout' = OutputPrint(stdout, "total_files", Len(scanned))
    /\ pc' = "out_flagged"
    /\ UNCHANGED << environ, fs, threshold, fail_on_bias, files, idx, text,
                    result, exc, results, flagged, total_score, scanned,
                    avg_score, summary, calls, exit_code >>

\* line 116
SetFlaggedFiles ==
    /\ pc = "out_flagged"
    /\ outputs' = OutputFile(outputs, "flagged_files", Len(flagged))
    /\ stdout' = OutputPrint(stdout, "flagged_files", Len(flagged))
    /\ pc' = "out_avg"
    /\ UNCHANGED << environ, fs, threshold, fail_on_bias, files, idx, text,
                    result, exc, results, flagged, total_score, scanned,
                    avg_score, summary, calls, exit_code >>

\* line 117
SetAvgScore ==
    /\ pc = "out_avg"
    /\ outputs' = OutputFile(outputs, "avg_score", avg_score)
    /\ stdout' = OutputPrint(stdout, "avg_score", avg_score)
    /\ pc' = "out_report"
    /\ UNCHANGED << environ, fs, threshold, fail_on_bias, files, idx, text,
                    result, exc, results, flagged, total_score, scanned,
                    avg_score, summary, calls, exit_code >>

\* line 118
SetReport ==
    /\ pc = "out_report"
    /\ outputs' = OutputFile(outputs, "report", results)
    /\ stdout' = OutputPrint(stdout, "report", results)
    /\ pc' = "job_summary"
    /\ UNCHANGED << environ, fs, threshold, fail_on_bias, files, idx, text,
                    result, exc, results, flagged, total_score, scanned,
                    avg_score, summary, calls, exit_code >>

\* SummaryRows listing the flagged files last-first
SummaryRows_Reversed(fl) ==
    [i \in 1..Len(fl) |->
       [kind |-> "row", file |-> fl[Len(fl) + 1 - i].file,
        score |-> fl[Len(fl) + 1 - i].truth_score,
        flag_names |-> JoinedNames(Get(fl[Len(fl) + 1 - i], "flags", <<>>))]]

\* lines 174-178: the rows of the flagged-files table
SummaryRows(fl) ==
    [i \in 1..Len(fl) |->
       [kind |-> "row", file |-> fl[i].file, score |-> fl[i].truth_score,
        flag_names |-> JoinedNames(Get(fl[i], "flags", <<>>))]]

\* lines 175-177 raise TypeError when a joined name is not a string
SummaryRaises(fl) ==
    \E i \in 1..Len(fl) : JoinRaises(Get(fl[i], "flags", <<>>))

\* _build_summary with the all-passed note outside its "if not flagged"
_build_summary_NoteAlways(sc, fl, avg, thr) ==
    << [kind |-> "title"],
       [kind |-> "metrics", scanned |-> Len(sc), flagged |-> Len(fl),
        avg_score |-> avg, threshold |-> thr] >>
    \o (IF fl # <<>>
        THEN << [kind |-> "flagged_header"] >> \o SummaryRows(fl)
        ELSE <<>>)
    \o << [kind |-> "all_passed"] >>
    \o << [kind |-> "rule"], [kind |-> "footer"] >>

\* lines 151-189: the lines of the markdown summary
_build_summary(sc, fl, avg, thr) ==
    << [kind |-> "title"],
       [kind |-> "metrics", scanned |-> Len(sc), flagged |-> Len(fl),
        avg_score |-> avg, threshold |-> thr] >>
    \o (IF fl # <<>>
        THEN << [kind |-> "flagged_header"] >> \o SummaryRows(fl)
        ELSE <<>>)
    \o (IF fl = <<>> THEN << [kind |-> "all_passed"] >> ELSE <<>>)
    \o << [kind |-> "rule"], [kind |-> "footer"] >>

\* JobSummary with the call of _write_summary forgotten
JobSummary_NoWrite ==
    /\ pc = "job_summary"
    /\ IF SummaryRaises(flagged)
       THEN /\ pc' = "done"
            /\ exit_code' = FailureExit
       ELSE /\ pc' = "decide"
            /\ UNCHANGED exit_code
    /\ UNCHANGED << environ, fs, threshold, fail_on_bias, files, idx, text,
                    result, exc, results, flagged, total_score, scanned,
                    avg_score, outputs, summary, stdout, calls >>

\* lines 121-122: build and write the job summary.  A TypeError raised by
\* _build_summary is not caught anywhere: the process ends with status 1.
JobSummary ==
    /\ pc = "job_summary"
    /\ IF SummaryRaises(flagged)
       THEN /\ pc' = "done"
            /\ exit_code' = FailureExit
            /\ UNCHANGED << summary, stdout >>
       ELSE /\ LET lines == _build_summary(scanned, flagged, avg_score,
                                           threshold)
               IN  /\ summary' = SummaryFile(summary, lines)
                   /\ stdout' = SummaryPrint(stdout, lines)
            /\ pc' = "decide"
            /\ UNCHANGED exit_code
    /\ UNCHANGED << environ, fs, threshold, fail_on_bias, files, idx, text,
                    result, exc, results, flagged, total_score, scanned,
                    avg_score, outputs, calls >>

\* line 126
IsBelow(f, thr) == Get(f, "truth_score", 100) < thr
Below(fl, thr) == SelectSeq(fl, LAMBDA f : IsBelow(f, thr))

\* lines 125-131
ExitStatus(fl, fob, thr) ==
    IF fl # <<>> /\ fob /\ Below(fl, thr) # <<>>
    THEN FailureExit ELSE SuccessExit

Decide ==
    /\ pc = "decide"
    /\ exit_code' = ExitStatus(flagged, fail_on_bias, threshold)
    /\ stdout' = Append(stdout,
                    IF ExitStatus(flagged, fail_on_bias, threshold) = FailureExit
                    THEN [kind |-> "below_threshold",
                          count |-> Len(Below(flagged, threshold))]
                    ELSE [kind |-> "all_passed_scan"])
    /\ pc' = "done"
    /\ UNCHANGED << environ, fs, threshold, fail_on_bias, files, idx, text,
                    result, exc, results, flagged, total_score, scanned,
                    avg_score, outputs, summary, calls >>

Next ==
    \/ ReadConfig
    \/ NoFiles
    \/ StartScan
    \/ NextFile
    \/ ReadFile
    \/ SkipEmpty
    \/ Analyze
    \/ BuildResult
    \/ Classify
    \/ HandleException
    \/ Summarize
    \/ SetTotalFiles
    \/ SetFlaggedFiles
    \/ SetAvgScore
    \/ SetReport
    \/ JobSummary
    \/ Decide

Spec == Init /\ [][Next]_vars

\* =================================================================== claims
\* the run got past configuration parsing
ConfigParsed == IsInt(get_env(environ, "SCAN_THRESHOLD", DefaultThreshold))

\* positions of main() inside the loop body, and after the loop
InLoopBody == pc \in {"read", "strip", "analyze", "build", "classify", "except"}
AfterLoop ==
    \/ pc \in {"summarize", "out_total", "out_flagged", "out_avg",
               "out_report", "job_summary", "decide"}
    \/ pc = "done" /\ files # <<>>

\* the iteration of file f is over
Finished(f) == f \in 1..idx /\ (f = idx => ~InLoopBody)

IsFailedRecord(r) == "skipped" \in DOMAIN r /\ r.skipped
IsScannedRecord(r) == "truth_score" \in DOMAIN r
HasFailed(f) == \E i \in DOMAIN results :
                    results[i].file = f /\ IsFailedRecord(results[i])
HasScanned(f) == \E i \in DOMAIN results :
                    results[i].file = f /\ IsScannedRecord(results[i])
Submitted(f) == \E i \in DOMAIN calls : calls[i] = f
IsBlankText(t) == \A i \in DOMAIN t : t[i] \in {" ", "\n"}

\* name=value has been emitted by _set_output (to the file or to stdout)
Written(name) ==
    \/ \E i \in DOMAIN outputs : outputs[i].name = name
    \/ \E i \in DOMAIN stdout :
          stdout[i].kind = "output" /\ stdout[i].name = name
WrittenValue(name, value) ==
    \/ \E i \in DOMAIN outputs :
          outputs[i].name = name /\ outputs[i].value = value
    \/ \E i \in DOMAIN stdout :
          /\ stdout[i].kind = "output"
          /\ stdout[i].name = name
          /\ stdout[i].value = value
SummaryWritten ==
    \/ \E i \in DOMAIN summary : summary[i].kind = "footer"
    \/ \E i \in DOMAIN stdout : stdout[i].kind = "footer"

\* ------------------------------------------------------------------- C1
\* C1: per-file failure isolation.  A file that cannot be read, or whose
\* analysis ends without a Scanned record, gets a Failed record
\* {file, error, skipped: true}; every readable non-blank file is submitted
\* to the analysis whatever happened to the files before it; the loop is
\* left only after the last file; and a run with files never ends before
\* the report output is emitted.
C1_FailureIsolation ==
    /\ \A f \in DOMAIN files :
          Finished(f) =>
            /\ fs[f] = Unreadable => HasFailed(f) /\ ~Submitted(f)
            /\ (Submitted(f) /\ ~HasScanned(f)) => HasFailed(f)
            /\ (fs[f] # Unreadable /\ ~IsBlankText(fs[f])) => Submitted(f)
    /\ \A i \in DOMAIN results :
          IsFailedRecord(results[i]) =>
             DOMAIN results[i] = {"file", "error", "skipped"}
    /\ AfterLoop => idx = Len(files)
    /\ (pc = "done" /\ files # <<>>) => Written("report")

\* Three files, the analysis of the second raises: two Scanned records
\* around one Failed record, and the run has ended.
C1_Witness ==
    /\ pc = "done"
    /\ Len(results) = 3
    /\ IsScannedRecord(results[1]) /\ results[1].file = 1
    /\ IsFailedRecord(results[2]) /\ results[2].file = 2
    /\ results[2].error = "AnalysisError"
    /\ IsScannedRecord(results[3]) /\ results[3].file = 3

\* ------------------------------------------------------------------- C2
\* C2: in every run that gets past configuration parsing, the exit status
\* is 1 if and only if failOnBias is true and some flagged file has
\* truthScore < threshold, and it is 0 otherwise.
C2_ExitIffBelow ==
    (pc = "done" /\ ConfigParsed) =>
        /\ exit_code \in {SuccessExit, FailureExit}
        /\ exit_code = FailureExit <=>
              /\ fail_on_bias
              /\ \E i \in DOMAIN flagged : flagged[i].truth_score < threshold

\* ------------------------------------------------------------------- C3
\* C3: between iterations and after the loop, the flagged list is exactly
\* the list of the Scanned records with bias_detected true or truth_score
\* below the threshold, each file at most once, and the flagged_files
\* output is its length.
C3_Condition(r) == r.bias_detected \/ r.truth_score < threshold
C3_FlaggedIff ==
    (pc = "loop" \/ AfterLoop) =>
        /\ flagged = SelectSeq(SelectSeq(results, IsScannedRecord),
                               C3_Condition)
        /\ \A i, j \in DOMAIN flagged :
              flagged[i].file = flagged[j].file => i = j
        /\ Written("flagged_files") =>
              WrittenValue("flagged_files",
                  Len(SelectSeq(SelectSeq(results, IsScannedRecord),
                                C3_Condition)))

\* One file flagged by detection alone, one by its score alone, one clean.
C3_Witness ==
    /\ pc = "done"
    /\ Written("flagged_files")
    /\ Len(flagged) = 2
    /\ \E i \in DOMAIN flagged :
          flagged[i].bias_detected /\ flagged[i].truth_score >= threshold
    /\ \E i \in DOMAIN flagged :
          ~flagged[i].bias_detected /\ flagged[i].truth_score < threshold
    /\ \E i \in DOMAIN results :
          /\ IsScannedRecord(results[i])
          /\ ~results[i].bias_detected
          /\ results[i].truth_score >= threshold

\* ------------------------------------------------------------------- C4
\* the outputs have been computed (lines 105-106 are done)
OutputsComputed ==
    \/ pc \in {"out_total", "out_flagged", "out_avg", "out_report",
               "job_summary", "decide"}
    \/ pc = "done" /\ files # <<>>

RECURSIVE SumOfScores(_)
SumOfScores(rs) ==
    IF rs = <<>> THEN 0 ELSE Head(rs).truth_score + SumOfScores(Tail(rs))

\* m tenths is the mean of sum over n, rounded to one decimal
IsRoundedMean(m, sum, n) ==
    /\ 2 * (10 * sum - m * n) <= n
    /\ 2 * (m * n - 10 * sum) <= n

\* C4: when the outputs are computed for a report with Scanned records,
\* total_score is the sum of truth_score over those records and avg_score
\* is their mean, rounded to one decimal.
C4_AvgIsMean ==
    OutputsComputed =>
        LET sc == SelectSeq(results, IsScannedRecord)
        IN  sc # <<>> =>
              /\ total_score = SumOfScores(sc)
              /\ IsRoundedMean(avg_score, SumOfScores(sc), Len(sc))

\* ------------------------------------------------------------------- C5
\* the run ended through the fail decision (lines 127-129)
ThresholdFailure ==
    /\ pc = "done"
    /\ exit_code = FailureExit
    /\ stdout # <<>>
    /\ stdout[Len(stdout)].kind = "below_threshold"

C6_NoScannedIsSuccess ==
    (pc = "done" /\ ConfigParsed /\ SelectSeq(results, IsScannedRecord) = <<>>)
        => /\ WrittenValue("avg_score", 10 * 100)
           /\ exit_code = SuccessExit

\* Three files, one blank and two failed, with failOnBias true.
C6_Witness ==
    /\ pc = "done"
    /\ fail_on_bias
    /\ Len(files) = 3
    /\ Len(results) = 2
    /\ \A i \in DOMAIN results : IsFailedRecord(results[i])
    /\ \E f \in DOMAIN files : IsBlankText(fs[f])

\* ------------------------------------------------------------------- C7
\* the progress lines printed so far
IsProgress(e) == e.kind = "progress"
ProgressLines == SelectSeq(stdout, IsProgress)

\* the Scanned record of file f
ScannedRecordOf(f) ==
    CHOOSE r \in { results[i] : i \in DOMAIN results } :
        r.file = f /\ IsScannedRecord(r)

\* C7 as claimed: the tier of a progress line follows from the score and
\* the threshold alone: score < threshold is the flagged tier,
\* threshold <= score < 90 the warn tier, score >= 90 the clean tier.
C7_TierByScoreOnly ==
    \A i \in DOMAIN ProgressLines :
        LET e == ProgressLines[i]
        IN  /\ e.score < threshold => e.status = "red"
            /\ (threshold <= e.score /\ e.score < 90) => e.status = "yellow"
            /\ e.score >= 90 => e.status = "green"

\* C7 as amended: the tier of a progress line is the flagged tier exactly
\* when the file is flagged (bias_detected true or score < threshold);
\* a file that is not flagged gets the warn tier when its score is below
\* 90 and the clean tier otherwise.
C7_TierFollowsFlagged ==
    \A i \in DOMAIN ProgressLines :
        LET e == ProgressLines[i]
            r == ScannedRecordOf(e.file)
            isFlagged == r.bias_detected \/ r.truth_score < threshold
        IN  /\ e.score = r.truth_score
            /\ e.status = "red" <=> isFlagged
            /\ e.status = "red" <=>
                  \E j \in DOMAIN flagged : flagged[j].file = e.file
            /\ e.status = "yellow" <=> (~isFlagged /\ r.truth_score < 90)
            /\ e.status = "green" <=> (~isFlagged /\ r.truth_score >= 90)

\* Progress lines of a file flagged by detection with a score of 90 or
\* more, of a warn-tier file and of a clean-tier file.
C7_Witness ==
    /\ \E i \in DOMAIN ProgressLines :
          /\ ProgressLines[i].status = "red"
          /\ ProgressLines[i].score >= 90
          /\ ProgressLines[i].score >= threshold
    /\ \E i \in DOMAIN ProgressLines : ProgressLines[i].status = "yellow"
    /\ \E i \in DOMAIN ProgressLines : ProgressLines[i].status = "green"

\* ------------------------------------------------------------------- C8
C8_BlankIsExcluded ==
    \A f \in DOMAIN files :
        (fs[f] # Unreadable /\ IsBlankText(fs[f])) =>
            /\ ~Submitted(f)
            /\ \A i \in DOMAIN results : results[i].file # f
            /\ \A i \in DOMAIN flagged : flagged[i].file # f
C8_SkipChangesNothing ==
    (pc = "strip" /\ IsBlankText(text)) =>
        /\ pc' = "loop"
        /\ UNCHANGED << results, flagged, total_score, calls, outputs >>

\* C8: a file whose text is empty or only whitespace is never submitted to
\* the analysis and has no record in the report or in the flagged list,
\* and the step that skips it leaves the report, the flagged list, the
\* score sum and the call log unchanged.
C8_EmptyFileNoEffect == []C8_BlankIsExcluded /\ [][C8_SkipChangesNothing]_vars

\* A whitespace-only file between two scanned files, the run ended.
C8_Witness ==
    /\ pc = "done"
    /\ Len(files) = 3
    /\ fs[2] = <<" ", "\n">>
    /\ HasScanned(1) /\ HasScanned(3)
    /\ \E i \in DOMAIN stdout : stdout[i].kind = "skipped" /\ stdout[i].file = 2

\* ------------------------------------------------------------------- C9
\* the flagged-file rows of the job summary, wherever it was written
IsRow(e) == e.kind = "row"
SummaryTableRows == SelectSeq(summary \o stdout, IsRow)

\* C9: the records of the report are in discovery order, whatever mix of
\* Scanned, Failed and skipped files the run holds; so are the records of
\* the flagged list, and the rows of the summary table are the flagged
\* files in the same order.
C9_DiscoveryOrder ==
    /\ \A i, j \in DOMAIN results :
          results[i].file < results[j].file => i < j
    /\ \A i, j \in DOMAIN flagged :
          flagged[i].file < flagged[j].file => i < j
    /\ SummaryWritten =>
          /\ Len(SummaryTableRows) = Len(flagged)
          /\ \A i \in DOMAIN flagged :
                SummaryTableRows[i].file = flagged[i].file
    /\ \A i \in DOMAIN outputs :
          outputs[i].name = "report" => outputs[i].value = results

\* A run with a Scanned, a Failed and a skipped file whose summary lists
\* two flagged files.
C9_Witness ==
    /\ pc = "done"
    /\ SummaryWritten
    /\ Len(files) = 3
    /\ Len(SummaryTableRows) = 2
    /\ \E i \in DOMAIN results : IsFailedRecord(results[i])

\* ------------------------------------------------------------------ C10
IsWarning(e) == e.kind = "warning"
Annotations == SelectSeq(stdout, IsWarning)

\* C10: between iterations and after the loop, the files with an inline
\* annotation are exactly the flagged files; the annotations are in file
\* order; and the annotation of a file precedes everything printed about
\* a later file.
C10_StreamingAnnotations ==
    (pc = "loop" \/ AfterLoop) =>
        /\ \A f \in DOMAIN files :
              (\E i \in DOMAIN Annotations : Annotations[i].file = f)
                 <=> (\E i \in DOMAIN flagged : flagged[i].file = f)
        /\ \A i, j \in DOMAIN Annotations :
              i < j => Annotations[i].file < Annotations[j].file
        /\ \A i, j \in DOMAIN stdout :
              (/\ IsWarning(stdout[i])
               /\ "file" \in DOMAIN stdout[j]
               /\ stdout[i].file < stdout[j].file) => i < j

\* ------------------------------------------------------------------ C11
\* the outcome of file f is final: it was skipped, or its progress line or
\* its failure line has been printed
OutcomeFinal(f) ==
    \E i \in DOMAIN stdout :
        /\ stdout[i].kind \in {"skipped", "progress", "failed"}
        /\ stdout[i].file = f

\* C11: the files are submitted to the analysis one after the other and
\* never again: the call log is strictly increasing in discovery order (so
\* no file is in it twice, a failed file included), the only call that can
\* be awaiting its outcome is the one of the file being processed, and when
\* a file is submitted the outcome of every earlier file is final.
C11_SequentialNoRetry ==
    /\ \A i, j \in DOMAIN calls : i < j => calls[i] < calls[j]
    /\ \A i \in DOMAIN calls :
          /\ calls[i] <= idx
          /\ \A f \in 1..(calls[i] - 1) : OutcomeFinal(f)
          /\ ~OutcomeFinal(calls[i]) => (calls[i] = idx /\ InLoopBody)
    /\ pc = "analyze" => \A f \in 1..(idx - 1) : OutcomeFinal(f)

\* Three files submitted in turn, the first of them failed, the run ended.
C11_Witness ==
    /\ pc = "done"
    /\ calls = << 1, 2, 3 >>
    /\ HasFailed(1) /\ ~HasScanned(1)
    /\ HasScanned(2) /\ HasScanned(3)

\* ------------------------------------------------------------------ C12
\* C12: when SCAN_THRESHOLD is not an integer the run goes from its start
\* straight to its end with exit status 1: the pattern is not resolved, no
\* file is read, nothing is submitted to the analysis, and no output, no
\* summary and no line is written.
C12_BadThresholdIsFatal ==
    ~ConfigParsed =>
        /\ pc \in {"start", "done"}
        /\ pc = "done" => exit_code = FailureExit
        /\ files = <<>> /\ idx = 0 /\ text = <<>>
        /\ calls = <<>> /\ results = <<>>
        /\ outputs = <<>> /\ summary = <<>> /\ stdout = <<>>

\* A run with a non-integer threshold and three matching files has ended.
C12_Witness ==
    /\ pc = "done"
    /\ ~ConfigParsed
    /\ Len(fs) = 3
    /\ fs[1] = <<" ", "a", "\n">>
    /\ exit_code = FailureExit

\* ------------------------------------------------------------------ C13
\* what _set_output has emitted, in order, as name and value
IsOutputLine(e) == e.kind = "output"
EmittedOutputs ==
    LET printed == SelectSeq(stdout, IsOutputLine)
    IN  outputs \o [i \in 1..Len(printed) |->
                      [name |-> printed[i].name, value |-> printed[i].value]]

\* C13: a run whose pattern matches no file emits exactly total_files=0,
\* flagged_files=0, avg_score=100 and report=[], writes no summary, calls
\* the analysis for nothing and ends with exit status 0, whatever the
\* threshold and failOnBias are.
C13_NoMatchOutputs ==
    (ConfigParsed /\ DOMAIN fs = {} /\ pc = "done") =>
        /\ EmittedOutputs = << [name |-> "total_files", value |-> 0],
                               [name |-> "flagged_files", value |-> 0],
                               [name |-> "avg_score", value |-> 10 * 100] >>
                            \o << [name |-> "report", value |-> <<>>] >>
        /\ ~SummaryWritten
        /\ calls = <<>>
        /\ exit_code = SuccessExit

\* A run without a matching file, with threshold 95 and failOnBias true.
C13_Witness ==
    /\ pc = "done"
    /\ DOMAIN fs = {}
    /\ threshold = 95
    /\ fail_on_bias
    /\ Len(EmittedOutputs) = 4

\* ------------------------------------------------------------------ C14
\* the verdict without truth_score, flags and bias_detected
AllAbsent == [engine |-> "local"]

\* the verdict in result is the one of the file being processed, and its
\* record has been built
VerdictRecorded ==
    /\ pc \in {"classify", "loop", "except"}
    /\ calls # <<>>
    /\ calls[Len(calls)] = idx
    /\ HasScanned(idx)

\* under every threshold from 0 to 100 the verdict without the three fields
\* is not flagged, and its record alone does not make the run fail
AllAbsentNeverFails ==
    \A thr \in 0..100 :
        /\ ~IsFlagged(BiasOf(AllAbsent), ScoreOf(AllAbsent), thr)
        /\ ExitStatus(<< FileResult(1, AllAbsent) >>, TRUE, thr) = SuccessExit

\* C14: the Scanned record of a file takes 100 for an absent truth_score,
\* a flag count of 0 and no flags for absent flags, and false for an
\* absent bias_detected; a verdict without the three fields gives a record
\* with score 100 and flag count 0 that is not flagged and is not below
\* the threshold, for every threshold from 0 to 100.
C14_AbsentFieldDefaults ==
    /\ VerdictRecorded =>
          LET r == ScannedRecordOf(idx)
          IN  /\ "truth_score" \notin DOMAIN result => r.truth_score = 100
              /\ "truth_score" \in DOMAIN result =>
                    r.truth_score = result.truth_score
              /\ "flags" \notin DOMAIN result =>
                    r.flag_count = 0 /\ r.flags = <<>>
              /\ "bias_detected" \notin DOMAIN result => ~r.bias_detected
              /\ "bias_detected" \in DOMAIN result =>
                    r.bias_detected = result.bias_detected
              /\ (result = AllAbsent /\ pc = "loop") =>
                    /\ \A i \in DOMAIN flagged : flagged[i].file # idx
                    /\ ~HasFailed(idx)
                    /\ \E i \in DOMAIN ProgressLines :
                          /\ ProgressLines[i].file = idx
                          /\ ProgressLines[i].status = "green"
                          /\ ProgressLines[i].score = 100
                          /\ ProgressLines[i].flag_count = 0
    /\ AllAbsentNeverFails

\* The file just processed got the verdict without the three fields, under
\* threshold 95.
C14_Witness ==
    /\ pc = "loop"
    /\ VerdictRecorded
    /\ result = AllAbsent
    /\ threshold = 95
    /\ fail_on_bias

\* ------------------------------------------------------------------ C15
\* C15: in every reachable state the report holds at most one record per
\* file, and a file with a Failed record has no Scanned record (so it is
\* not in the scanned count) and is not in the flagged list.
C15_OneRecordPerFile ==
    /\ \A i, j \in DOMAIN results :
          results[i].file = results[j].file => i = j
    /\ \A f \in DOMAIN files :
          HasFailed(f) =>
             /\ ~HasScanned(f)
             /\ \A i \in DOMAIN flagged : flagged[i].file # f

\* ------------------------------------------------------------------ C16
\* the lines of the job summary, wherever _write_summary put them
IsSummaryLine(e) ==
    e.kind \in {"title", "metrics", "flagged_header", "row", "all_passed",
                "rule", "footer"}
SummaryLines == SelectSeq(summary \o stdout, IsSummaryLine)
LinesOfKind(k) == { i \in DOMAIN SummaryLines : SummaryLines[i].kind = k }

\* C16: a written summary starts with the title and the metrics table,
\* holds either the flagged-files table (when the flagged list is not
\* empty: its header followed by one row per flagged file) or the
\* all-passed note (when it is empty), never both and never neither, and
\* ends with the rule and the attribution footer.
C16_SummarySections ==
    SummaryWritten =>
        LET n == Len(SummaryLines)
        IN  /\ SummaryLines[1].kind = "title"
            /\ SummaryLines[2].kind = "metrics"
            /\ SummaryLines[2].scanned = Len(scanned)
            /\ SummaryLines[2].flagged = Len(flagged)
            /\ SummaryLines[n - 1].kind = "rule"
            /\ SummaryLines[n].kind = "footer"
            /\ Cardinality(LinesOfKind("footer")) = 1
            /\ (LinesOfKind("flagged_header") # {})
                  <=> (LinesOfKind("all_passed") = {})
            /\ (LinesOfKind("flagged_header") # {}) <=> (flagged # <<>>)
            /\ flagged # <<>> =>
                  /\ n = Len(flagged) + 5
                  /\ SummaryLines[3].kind = "flagged_header"
                  /\ \A i \in 1..Len(flagged) :
                        /\ SummaryLines[3 + i].kind = "row"
                        /\ SummaryLines[3 + i].file = flagged[i].file
                        /\ SummaryLines[3 + i].score = flagged[i].truth_score
            /\ flagged = <<>> =>
                  /\ n = 5
                  /\ SummaryLines[3].kind = "all_passed"
                  /\ LinesOfKind("row") = {}

\* A written summary whose table lists two flagged files.
C16_Witness ==
    /\ pc = "done"
    /\ SummaryWritten
    /\ Len(flagged) = 2
    /\ Cardinality(LinesOfKind("row")) = 2
    /\ LinesOfKind("all_passed") = {}

\* ------------------------------------------------------------------ C17
RECURSIVE IsSubsequence(_, _)
IsSubsequence(a, b) ==
    IF a = <<>> THEN TRUE
    ELSE IF b = <<>> THEN FALSE
    ELSE IF Head(a) = Head(b) THEN IsSubsequence(Tail(a), Tail(b))
    ELSE IsSubsequence(a, Tail(b))

\* C17: between iterations and after the loop, the flagged list is a
\* subsequence of the Scanned records of the report; the flagged count is
\* at most the scanned count, which is at most the number of files; and no
\* file with a Failed record and no skipped file is among the Scanned
\* records or in the flagged list.
C17_FlaggedWithinScanned ==
    (pc = "loop" \/ AfterLoop) =>
        LET sc == SelectSeq(results, IsScannedRecord)
        IN  /\ IsSubsequence(flagged, sc)
            /\ Len(flagged) <= Len(sc)
            /\ Len(sc) <= Len(files)
            /\ \A f \in DOMAIN files :
                  (HasFailed(f) \/ (fs[f] # Unreadable /\ IsBlankText(fs[f])))
                     => /\ \A i \in DOMAIN sc : sc[i].file # f
                        /\ \A i \in DOMAIN flagged : flagged[i].file # f
====
